---- MODULE Spec2Model ----
(***************************************************************************)
(* Scoped callbacks of rlua: Scope (src/src/scope.rs) registers host       *)
(* closures as VM functions for the duration of a scope and invalidates    *)
(* them, in two phases, when the Scope is dropped.                         *)
(*                                                                         *)
(* The host program is one thread.  `pc` is its position: outside every    *)
(* scope ("idle"), inside the body of the innermost open scope ("body"),   *)
(* inside Drop for Scope ("drain", "destructor", "drop_values"), between   *)
(* an inner scope() a panic has left and the enclosing body it unwinds     *)
(* ("unwinding"), or finished: by a panic that left the outermost scope()  *)
(* ("panicked") or by a process abort ("aborted"), or with the Lua          *)
(* dropped ("closed").  Scopes may nest, and a body may register through   *)
(* any scope that is open around it.                                       *)
(***************************************************************************)
EXTENDS Integers, Sequences, FiniteSets, TLC

\* Bounds of the model.
MaxFuncs == 2
MaxScopes == 2
MaxDepth == 2

VARIABLES
    pc,          \* position of the host thread
    scopes,      \* stack of the open Scope objects, outermost first
    scopeLog,    \* per scope ever created: its state, how often Drop ran on
                 \* it, and how many destructors it held when it was discarded
    funcs,       \* VM function objects created by Scope::create_callback:
                 \* upvalue 1, the Scope, and whether the userdata object
                 \* made for the function still owns its Callback
    callbacks,   \* the host Callback object behind each function: where it
                 \* is and how often it has been destroyed
    registry,    \* per function: number of Reference aliases of its slot
    handles,     \* per function: depth of the body holding the Function handle
    globals,     \* functions reachable through a global of the VM
    stack,       \* operand stack of the VM state
    dtor,        \* the destructor being run: f_destruct, the statement it is
                 \* at, _sg, ud, and the stack top when it was called
    to_drop,     \* Drop for Scope: the holding sequence of extracted objects
    panicking,   \* "no", or where the panic being unwound started
    callStack,   \* functions whose closure is executing, outermost first
    last,        \* the latest result the host got from create_* or call
    rcCount,     \* strong count of the Rc every registered closure captures
    cell,        \* value of the Cell behind that Rc
    tableA,      \* key "a" of a table created outside every scope
    invalidated, \* functions in the order their upvalue was neutralized
    ran          \* f_destruct of every destructor called, in call order

vars == <<pc, scopes, scopeLog, funcs, callbacks, registry, handles, globals,
          stack, dtor, to_drop, panicking, callStack, last, rcCount, cell,
          tableA, invalidated, ran>>

Kinds == {"Fn", "FnMut"}

FuncIds == 1..Len(funcs)
Depth == Len(scopes)

\* The Lua values the destructor moves over the operand stack.
LuaFunction(f) == [t |-> "function", f |-> f]
LuaUserdata(f) == [t |-> "userdata", f |-> f]
LuaNil == [t |-> "nil", f |-> 0]

NoDtor == [f |-> 0, ip |-> 0, sg |-> -1, ud |-> 0, base |-> 0]
Nothing == [op |-> "none", fn |-> 0, res |-> "none"]

\* Scope::new: a scope starts with an empty destructor list.
Scope_new(id) == [id |-> id, destructors |-> <<>>]

\* Where the Scope with identity id is in its life.
ScopeOpen(id) == id \in DOMAIN scopeLog /\ scopeLog[id].st = "Open"
ScopeExited(id) == id \in DOMAIN scopeLog /\ scopeLog[id].st = "Closed"

\* Functions registered through the scope with identity id.
RegisteredIn(id) == {f \in FuncIds : funcs[f].scope = id}

Init ==
    /\ pc = "idle"
    /\ scopes = <<>>
    /\ scopeLog = <<>>
    /\ funcs = <<>>
    /\ callbacks = <<>>
    /\ registry = <<>>
    /\ handles = <<>>
    /\ globals = {}
    /\ stack = <<>>
    /\ dtor = NoDtor
    /\ to_drop = <<>>
    /\ panicking = "no"
    /\ callStack = <<>>
    /\ last = Nothing
    /\ rcCount = 1
    /\ cell = 0
    /\ tableA = "nil"
    /\ invalidated = <<>>
    /\ ran = <<>>

\* Lua::create_function: a callback that is not bound to a scope (scope 0),
\* registered before any scope is entered and kept in a global, as the
\* table of outer_lua_access is.  Its closure is 'static: it does not capture
\* the Rc.  No destructor is made for it.
Lua_create_function ==
    /\ pc = "idle"
    /\ scopeLog = <<>>
    /\ funcs = <<>>
    /\ funcs' = <<[upvalue |-> "ud", scope |-> 0, userdata |-> "owns"]>>
    /\ callbacks' = <<[kind |-> "Fn", loc |-> "userdata", borrowed |-> FALSE,
                       drops |-> 0]>>
    /\ registry' = <<0>>
    /\ handles' = <<0>>
    /\ globals' = {1}
    /\ UNCHANGED <<pc, scopes, scopeLog, stack, dtor, to_drop, panicking,
                   callStack, last, rcCount, cell, tableA, invalidated, ran>>

\* The host programs considered do what scope_func does: the statement after
\* a registration stores the new function in a global.  Published holds
\* between such pairs of statements.
Published == \A f \in FuncIds : handles[f] > 0 => f \in globals

\* Lua::scope: construct a Scope and run the body with it.
ScopeEnter ==
    /\ pc \in {"idle", "body"}
    /\ callStack = <<>>
    /\ Published
    /\ Len(scopeLog) < MaxScopes
    /\ scopes' = Append(scopes, Scope_new(Len(scopeLog) + 1))
    /\ scopeLog' = Append(scopeLog, [st |-> "Open", drops |-> 0, left |-> 0])
    /\ pc' = "body"
    /\ UNCHANGED <<funcs, callbacks, registry, handles, globals, stack, dtor,
                   to_drop, panicking, callStack, last, rcCount, cell, tableA,
                   invalidated, ran>>

\* A variant that pushes on the list of the innermost open scope.
destructors_of_innermost(s) == Depth

\* Scope::create_callback pushes the destructor on the list of the Scope it
\* was called on (self.destructors), whichever scopes are open inside it.
destructors_of_self(s) == s

\* Variants of the push: one that inserts the new destructor at the front
\* of the list, one that pushes it twice.
destructors_push_front(ds, f) == <<f>> \o ds
destructors_push_twice(ds, f) == Append(Append(ds, f), f)

\* A variant whose destructor captures the Reference of the first function
\* ever registered instead of the one just created.
destructors_push_stale(ds, f) == Append(ds, 1)

\* destructors.push(..): the new destructor goes to the end of the list.
destructors_push(ds, f) == Append(ds, f)

\* A variant in which the destructor uses the caller's Reference instead of
\* an alias of its own.
f_destruct_shared(n) == n

\* let f_destruct = f.0.clone(): one more alias of the registry slot of f.
f_destruct_clone(n) == n + 1

\* Scope::create_callback: create the VM function, then append the destructor
\* that holds its own alias (f_destruct = f.0.clone()) of the Reference.
\* The closure captures a clone of the Rc.  Lua::create_callback may fail
\* (ok = FALSE): the error is returned by `?` before anything is pushed, and
\* the closure is dropped with its captures.
create_callback(s, kind, ok) ==
    /\ pc = "body"
    /\ callStack = <<>>
    /\ Published
    /\ s \in 1..Depth
    /\ Len(funcs) < MaxFuncs
    /\ IF ok
       THEN LET f == Len(funcs) + 1 IN
            /\ funcs' = Append(funcs, [upvalue |-> "ud", scope |-> scopes[s].id,
                                        userdata |-> "owns"])
            /\ callbacks' = Append(callbacks,
                   [kind |-> kind, loc |-> "userdata", borrowed |-> FALSE,
                    drops |-> 0])
            /\ registry' = Append(registry, f_destruct_clone(1))
            /\ handles' = Append(handles, Depth)
            /\ scopes' = [scopes EXCEPT ![destructors_of_self(s)].destructors =
                              destructors_push(@, f)]
            /\ rcCount' = rcCount + 1
            /\ last' = [op |-> "create", fn |-> f, res |-> "Ok"]
       ELSE /\ last' = [op |-> "create", fn |-> 0, res |-> "Err"]
            /\ UNCHANGED <<funcs, callbacks, registry, handles, scopes, rcCount>>
    /\ UNCHANGED <<pc, scopeLog, globals, stack, dtor, to_drop, panicking,
                   callStack, cell, tableA, invalidated, ran>>

\* Scope::create_function: the closure is called through a shared reference.
create_function ==
    \E s \in 1..Depth, ok \in BOOLEAN : create_callback(s, "Fn", ok)

\* Scope::create_function_mut: the closure is put in a RefCell and registered
\* through create_function.
create_function_mut ==
    \E s \in 1..Depth, ok \in BOOLEAN : create_callback(s, "FnMut", ok)

\* lua.globals().set(name, f.clone()): the VM keeps its own reference.
SetGlobal ==
    /\ pc = "body"
    /\ callStack = <<>>
    /\ \E f \in FuncIds :
        /\ handles[f] > 0
        /\ f \notin globals
        /\ globals' = globals \cup {f}
    /\ UNCHANGED <<pc, scopes, scopeLog, funcs, callbacks, registry, handles,
                   stack, dtor, to_drop, panicking, callStack, last, rcCount,
                   cell, tableA, invalidated, ran>>

\* ---------------------------------------------------------------------
\* Invocation of a registered function.

\* The trampoline Lua::create_callback installs looks at upvalue 1 of the
\* function: a destructed function (nil upvalue) fails with the recoverable
\* error Error::CallbackError and the host closure is not reached.
call_callback(f) == IF funcs[f].upvalue = "nil" THEN "CallbackError" ELSE "call"

\* Variants of the wrapper: one that does not look at the borrow flag, one
\* with the test inverted.
try_borrow_mut_unchecked(f) == "Ok"
try_borrow_mut_inverted(f) == IF callbacks[f].borrowed THEN "Ok" ELSE "Err"

\* create_function_mut's wrapper: func.try_borrow_mut() fails while an
\* invocation of the same closure holds the RefMut.
try_borrow_mut(f) == IF callbacks[f].borrowed THEN "Err" ELSE "Ok"

\* A variant in which the closure of either flavor is behind a RefCell.
RefCell_new_always(kind) == TRUE

\* Only create_function_mut wraps its closure (let func = RefCell::new(func));
\* the closure of create_function is called through a shared reference.
RefCell_new(kind) == kind = "FnMut"

\* Functions the code running now can call: the body through a Function
\* handle or a global, a closure (which cannot capture handles) through the
\* globals of the Lua it is passed.
Callable(f) == f \in globals \/ (callStack = <<>> /\ handles[f] > 0)

Running == callStack[Len(callStack)]

Called(f, res) == [op |-> "call", fn |-> f, res |-> res]

\* f.call(args), from the host or from a running closure.
Invoke ==
    /\ pc \in {"idle", "body"}
    /\ Published
    /\ Len(callStack) < MaxDepth
    /\ \E f \in FuncIds :
        /\ Callable(f)
        /\ IF call_callback(f) = "CallbackError"
           THEN /\ last' = Called(f, "CallbackError")
                /\ UNCHANGED <<callStack, callbacks>>
           ELSE IF RefCell_new(callbacks[f].kind) /\ try_borrow_mut(f) = "Err"
           THEN /\ last' = Called(f, "RecursiveMutCallback")
                /\ UNCHANGED <<callStack, callbacks>>
           ELSE /\ callStack' = Append(callStack, f)
                /\ callbacks' = [callbacks EXCEPT ![f].borrowed =
                                     RefCell_new(callbacks[f].kind)]
                /\ last' = Nothing
    /\ UNCHANGED <<pc, scopes, scopeLog, funcs, registry, handles, globals,
                   stack, dtor, to_drop, panicking, rcCount, cell, tableA,
                   invalidated, ran>>

\* The body of the innermost running closure: r.set(42) on the captured Rc
\* (a closure bound to a scope has one) and table.set("a", "b") on a table
\* created outside the scope.
ClosureEffect ==
    /\ callStack # <<>>
    /\ cell' = IF funcs[Running].scope = 0 THEN cell ELSE 42
    /\ tableA' = "b"
    /\ UNCHANGED <<pc, scopes, scopeLog, funcs, callbacks, registry, handles,
                   globals, stack, dtor, to_drop, panicking, callStack, last,
                   rcCount, invalidated, ran>>

\* What the caller gets when the closure is left: its Ok, its error, or the
\* panic caught at the trampoline and turned into a CallbackError.
Outcome(out) == IF out = "panic" THEN "CallbackError" ELSE out

\* A variant in which a panic of the closure leaves the RefCell borrowed.
RefMut_leaked_by_panic(out) == out = "panic"

\* The RefMut try_borrow_mut returned is a temporary of the call expression:
\* it is dropped when the closure is left, by return or by unwinding, and
\* the RefCell is no longer borrowed.
RefMut_drop(out) == FALSE

\* The innermost running closure returns or panics; the RefMut of an FnMut
\* closure is dropped on either path.
ClosureReturn ==
    /\ callStack # <<>>
    /\ \E out \in {"Ok", "Err", "panic"} :
        /\ last' = Called(Running, Outcome(out))
        /\ callbacks' = [callbacks EXCEPT ![Running].borrowed =
                             RefMut_drop(out)]
    /\ callStack' = SubSeq(callStack, 1, Len(callStack) - 1)
    /\ UNCHANGED <<pc, scopes, scopeLog, funcs, registry, handles, globals,
                   stack, dtor, to_drop, panicking, rcCount, cell, tableA,
                   invalidated, ran>>

\* ---------------------------------------------------------------------
\* Leaving the body and Drop for Scope.

Front(q) == SubSeq(q, 1, Len(q) - 1)

\* The Function handles held by the body at depth d are dropped when that
\* body is left, each releasing its alias of the registry slot.
HandlesAfterBody(d) ==
    [f \in DOMAIN handles |-> IF handles[f] = d THEN 0 ELSE handles[f]]
RegistryAfterBody(d) ==
    [f \in DOMAIN registry |->
        IF handles[f] = d THEN registry[f] - 1 ELSE registry[f]]

\* Lua::scope drops the Scope when the body is left: Drop::drop is entered.
EnterDrop(why) ==
    /\ handles' = HandlesAfterBody(Depth)
    /\ registry' = RegistryAfterBody(Depth)
    /\ scopeLog' = [scopeLog EXCEPT ![scopes[Depth].id] =
                        [@ EXCEPT !.st = "Closing", !.drops = @ + 1]]
    /\ to_drop' = <<>>
    /\ panicking' = why
    /\ last' = Nothing
    /\ pc' = "drain"
    /\ UNCHANGED <<scopes, funcs, callbacks, globals, stack, dtor, callStack,
                   rcCount, cell, tableA, invalidated, ran>>

\* The body returns.
BodyReturn ==
    /\ pc = "body"
    /\ callStack = <<>>
    /\ Published
    /\ EnterDrop("no")

\* The body panics (or a panic leaving an inner scope() unwinds through it).
BodyPanic ==
    \/ /\ pc = "body"
       /\ callStack = <<>>
       /\ Published
       /\ EnterDrop("body")
    \/ /\ pc = "unwinding"
       /\ EnterDrop(panicking)

\* Variants of the destructor: one that leaves upvalue 1 as it is, one that
\* neutralizes the upvalue without taking the userdata, one that opens its
\* StackGuard only after push_ref.
DestructorBody_keeps_upvalue ==
    <<"StackGuard_new", "assert_stack", "push_ref", "lua_getupvalue",
      "take_userdata", "lua_pop">>
DestructorBody_leaves_userdata ==
    <<"StackGuard_new", "assert_stack", "push_ref", "lua_pushnil",
      "lua_setupvalue", "lua_pop">>
DestructorBody_late_guard ==
    <<"assert_stack", "push_ref", "StackGuard_new", "lua_getupvalue",
      "take_userdata", "lua_pushnil", "lua_setupvalue", "lua_pop">>

\* A variant that does not take the userdata off the stack before pushing
\* the nil.
DestructorBody_keeps_userdata_on_stack ==
    <<"StackGuard_new", "assert_stack", "push_ref", "lua_getupvalue",
      "lua_pushnil", "lua_setupvalue", "lua_pop">>

\* A variant that neutralizes the upvalue before it reads it.
DestructorBody_nil_first ==
    <<"StackGuard_new", "assert_stack", "push_ref", "lua_pushnil",
      "lua_setupvalue", "lua_getupvalue", "take_userdata", "lua_pop">>

\* The statements of the destructor closure, in the order of the code.
DestructorBody ==
    <<"StackGuard_new", "assert_stack", "push_ref", "lua_getupvalue",
      "take_userdata", "lua_pushnil", "lua_setupvalue", "lua_pop">>

\* Variants of the end of phase 1: one that drops each extracted object
\* before the next destructor is called, one that skips the destructors
\* while the thread is panicking.
collect_done_interleaved(ds) == ds = <<>> \/ to_drop # <<>>
collect_done_when_panicking(ds) == ds = <<>> \/ panicking # "no"

\* Phase 1 is over when drain(..).map(..).collect() has consumed the list.
collect_done(ds) == ds = <<>>

\* Variants of drain: one that iterates without removing, one that empties
\* the list as soon as its first element is yielded.
drained_nothing(ds) == ds
drained_all(ds) == <<>>

\* drain(..) removes from the list each destructor it yields.
drained(ds) == Tail(ds)

\* drain(..).map(|destructor| destructor()): take the next destructor off the
\* front of the list and call it, or go on to drop(to_drop).
Drain ==
    /\ pc = "drain"
    /\ LET ds == scopes[Depth].destructors IN
       IF collect_done(ds)
       THEN /\ pc' = "drop_values"
            /\ UNCHANGED <<scopes, dtor, ran>>
       ELSE /\ scopes' = [scopes EXCEPT ![Depth].destructors = drained(ds)]
            /\ dtor' = [f |-> Head(ds), ip |-> 1, sg |-> -1, ud |-> 0,
                     base |-> Len(stack)]
            /\ ran' = Append(ran, Head(ds))
            /\ pc' = "destructor"
    /\ UNCHANGED <<scopeLog, funcs, callbacks, registry, handles, globals,
                   stack, to_drop, panicking, callStack, last, rcCount, cell,
                   tableA, invalidated>>

At(op) ==
    /\ pc = "destructor"
    /\ dtor.ip <= Len(DestructorBody)
    /\ DestructorBody[dtor.ip] = op

Advance == [dtor EXCEPT !.ip = @ + 1]

Pop(st) == IF st = <<>> THEN st ELSE Front(st)

\* let _sg = StackGuard::new(state): record the stack top.
StackGuard_new ==
    /\ At("StackGuard_new")
    /\ dtor' = [Advance EXCEPT !.sg = Len(stack)]
    /\ UNCHANGED <<pc, scopes, scopeLog, funcs, callbacks, registry, handles,
                   globals, stack, to_drop, panicking, callStack, last,
                   rcCount, cell, tableA, invalidated, ran>>

\* assert_stack(state, 2): without room for two more slots the process is
\* aborted, nothing is recovered.
assert_stack ==
    /\ At("assert_stack")
    /\ \E room \in BOOLEAN :
        IF room THEN dtor' = Advance /\ pc' = pc
                ELSE dtor' = dtor /\ pc' = "aborted"
    /\ UNCHANGED <<scopes, scopeLog, funcs, callbacks, registry, handles,
                   globals, stack, to_drop, panicking, callStack, last,
                   rcCount, cell, tableA, invalidated, ran>>

\* A variant in which the slot of f_destruct holds the function registered
\* just before its own.
referent_previous(f) == IF f > 1 THEN f - 1 ELSE f

\* The value the registry slot of f_destruct anchors: the function that
\* self.lua.create_callback(f) returned to the same call of create_callback.
referent(f) == f

\* f_destruct.lua.push_ref(&f_destruct): push what the registry slot holds.
push_ref ==
    /\ At("push_ref")
    /\ stack' = Append(stack, IF registry[dtor.f] > 0
                              THEN LuaFunction(referent(dtor.f))
                              ELSE LuaNil)
    /\ dtor' = Advance
    /\ UNCHANGED <<pc, scopes, scopeLog, funcs, callbacks, registry, handles,
                   globals, to_drop, panicking, callStack, last, rcCount,
                   cell, tableA, invalidated, ran>>

\* ffi::lua_getupvalue(state, -1, 1): push upvalue 1 of the function on top
\* (nothing when the top is not a function).
lua_getupvalue ==
    /\ At("lua_getupvalue")
    /\ LET top == stack[Len(stack)] IN
       stack' = IF stack # <<>> /\ top.t = "function"
                THEN Append(stack, IF funcs[top.f].upvalue = "ud"
                                   THEN LuaUserdata(top.f) ELSE LuaNil)
                ELSE stack
    /\ dtor' = Advance
    /\ UNCHANGED <<pc, scopes, scopeLog, funcs, callbacks, registry, handles,
                   globals, to_drop, panicking, callStack, last, rcCount,
                   cell, tableA, invalidated, ran>>

\* let ud = take_userdata::<Callback>(state): move the Callback out of the
\* userdata on top of the stack, leaving the userdata destructed, and pop it.
take_userdata ==
    /\ At("take_userdata")
    /\ LET top == stack[Len(stack)]
           live == /\ stack # <<>>
                   /\ top.t = "userdata"
                   /\ callbacks[top.f].loc = "userdata"
       IN  /\ callbacks' = IF live
                           THEN [callbacks EXCEPT ![top.f].loc = "local"]
                           ELSE callbacks
           /\ funcs' = IF live
                       THEN [funcs EXCEPT ![top.f].userdata = "destructed"]
                       ELSE funcs
           /\ dtor' = [Advance EXCEPT !.ud = IF live THEN top.f ELSE 0]
    /\ stack' = Pop(stack)
    /\ UNCHANGED <<pc, scopes, scopeLog, registry, handles, globals,
                   to_drop, panicking, callStack, last, rcCount, cell, tableA,
                   invalidated, ran>>

\* ffi::lua_pushnil(state)
lua_pushnil ==
    /\ At("lua_pushnil")
    /\ stack' = Append(stack, LuaNil)
    /\ dtor' = Advance
    /\ UNCHANGED <<pc, scopes, scopeLog, funcs, callbacks, registry, handles,
                   globals, to_drop, panicking, callStack, last, rcCount,
                   cell, tableA, invalidated, ran>>

\* ffi::lua_setupvalue(state, -2, 1): pop the top value into upvalue 1 of
\* the function below it (nothing when that is not a function).
lua_setupvalue ==
    /\ At("lua_setupvalue")
    /\ LET n == Len(stack) IN
       IF n >= 2 /\ stack[n - 1].t = "function"
       THEN LET g == stack[n - 1].f
                v == IF stack[n].t = "nil" THEN "nil" ELSE "ud"
            IN  /\ funcs' = [funcs EXCEPT ![g].upvalue = v]
                /\ invalidated' = IF v = "nil" THEN Append(invalidated, g)
                                               ELSE invalidated
                /\ stack' = Front(stack)
       ELSE UNCHANGED <<funcs, invalidated, stack>>
    /\ dtor' = Advance
    /\ UNCHANGED <<pc, scopes, scopeLog, callbacks, registry, handles,
                   globals, to_drop, panicking, callStack, last, rcCount,
                   cell, tableA, ran>>

\* ffi::lua_pop(state, 1)
lua_pop ==
    /\ At("lua_pop")
    /\ stack' = Pop(stack)
    /\ dtor' = Advance
    /\ UNCHANGED <<pc, scopes, scopeLog, funcs, callbacks, registry, handles,
                   globals, to_drop, panicking, callStack, last, rcCount,
                   cell, tableA, invalidated, ran>>

\* Drop for StackGuard: reset the stack top to the recorded value.
StackGuard_drop(st, top) ==
    IF top < 0 THEN st
    ELSE [i \in 1..top |-> IF i <= Len(st) THEN st[i] ELSE LuaNil]

\* Box::new(ud): the destructor returns the extracted Callback, its
\* StackGuard is dropped, collect() puts the box in the holding sequence and
\* the destructor itself is dropped with its alias f_destruct.
destructor_return ==
    /\ pc = "destructor"
    /\ dtor.ip > Len(DestructorBody)
    /\ stack' = StackGuard_drop(stack, dtor.sg)
    /\ to_drop' = Append(to_drop, dtor.ud)
    /\ callbacks' = IF dtor.ud # 0
                    THEN [callbacks EXCEPT ![dtor.ud].loc = "to_drop"]
                    ELSE callbacks
    /\ registry' = [registry EXCEPT ![dtor.f] = @ - 1]
    /\ dtor' = NoDtor
    /\ pc' = "drain"
    /\ UNCHANGED <<scopes, scopeLog, funcs, handles, globals, panicking,
                   callStack, last, rcCount, cell, tableA, invalidated, ran>>

\* drop(to_drop), one extracted object at a time: the Callback is destroyed
\* and releases the Rc it captured.  Its destruction may panic; the rest of
\* the sequence is still dropped, and a second panic aborts the process.
drop_value ==
    /\ pc = "drop_values"
    /\ to_drop # <<>>
    /\ \E panics \in BOOLEAN :
        IF panics /\ panicking # "no"
        THEN /\ pc' = "aborted"
             /\ UNCHANGED <<to_drop, callbacks, rcCount, panicking>>
        ELSE /\ pc' = pc
             /\ to_drop' = Tail(to_drop)
             /\ panicking' = IF panics THEN "drop" ELSE panicking
             /\ IF Head(to_drop) # 0
                THEN /\ callbacks' = [callbacks EXCEPT
                                         ![Head(to_drop)].loc = "dropped",
                                         ![Head(to_drop)].drops = @ + 1]
                     /\ rcCount' = rcCount - 1
                ELSE UNCHANGED <<callbacks, rcCount>>
    /\ UNCHANGED <<scopes, scopeLog, funcs, registry, handles, globals,
                   stack, dtor, callStack, last, cell, tableA, invalidated, ran>>

\* Drop::drop returns and the Scope is gone; scope() returns to its caller,
\* or the panic goes on unwinding from it.
drop_done ==
    /\ pc = "drop_values"
    /\ to_drop = <<>>
    /\ scopeLog' = [scopeLog EXCEPT ![scopes[Depth].id] =
                        [@ EXCEPT !.st = "Closed",
                                  !.left = Len(scopes[Depth].destructors)]]
    /\ scopes' = Front(scopes)
    /\ pc' = IF panicking = "no"
             THEN (IF Depth = 1 THEN "idle" ELSE "body")
             ELSE (IF Depth = 1 THEN "panicked" ELSE "unwinding")
    /\ UNCHANGED <<funcs, callbacks, registry, handles, globals, stack, dtor,
                   to_drop, panicking, callStack, last, rcCount, cell, tableA,
                   invalidated, ran>>

\* The Callbacks the collector destroys: those a userdata object still owns.
Collected == {f \in FuncIds : funcs[f].userdata = "owns"}

\* The Lua is dropped, outside every scope or by the panic that left them:
\* the VM is closed and collects every object.  The finalizer of a userdata
\* that still owns its Callback destroys it; a destructed userdata has
\* nothing to destroy.
lua_close ==
    /\ pc \in {"idle", "panicked"}
    /\ callStack = <<>>
    /\ callbacks' = [f \in DOMAIN callbacks |->
                        IF f \in Collected
                        THEN [callbacks[f] EXCEPT !.loc = "dropped",
                                                  !.drops = @ + 1]
                        ELSE callbacks[f]]
    /\ funcs' = [f \in DOMAIN funcs |->
                    [funcs[f] EXCEPT !.userdata = "collected"]]
    /\ rcCount' = rcCount - Cardinality({f \in Collected : funcs[f].scope # 0})
    /\ globals' = {}
    /\ pc' = "closed"
    /\ UNCHANGED <<scopes, scopeLog, registry, handles, stack, dtor, to_drop,
                   panicking, callStack, last, cell, tableA, invalidated, ran>>

Next ==
    \/ Lua_create_function
    \/ ScopeEnter
    \/ create_function
    \/ create_function_mut
    \/ SetGlobal
    \/ Invoke
    \/ ClosureEffect
    \/ ClosureReturn
    \/ BodyReturn
    \/ BodyPanic
    \/ Drain
    \/ StackGuard_new
    \/ assert_stack
    \/ push_ref
    \/ lua_getupvalue
    \/ take_userdata
    \/ lua_pushnil
    \/ lua_setupvalue
    \/ lua_pop
    \/ destructor_return
    \/ drop_value
    \/ drop_done
    \/ lua_close

Spec == Init /\ [][Next]_vars
\* ---------------------------------------------------------------------
\* Properties.

Range(q) == {q[i] : i \in DOMAIN q}
Count(q, x) == Cardinality({i \in DOMAIN q : q[i] = x})
ScopeOf(f) == funcs[f].scope
Closing == pc \in {"drain", "destructor", "drop_values"}

\* A step in which a call returned at once, without the closure being run.
CallRefused ==
    /\ callStack' = callStack
    /\ last' # last
    /\ last'.op = "call"

\* A step in which a closure started to execute.
CallEntered == Len(callStack') > Len(callStack)

\* C1: once a scope has exited, a call of a function registered through it
\* (the host reaches it through a global that survived the scope) returns
\* Error::CallbackError, and its closure is never executing: no call of such
\* a function enters the closure, and none changes the host state.
C1_NoExitedRunning ==
    \A i \in DOMAIN callStack : ~ScopeExited(ScopeOf(callStack[i]))
C1_Step ==
    /\ CallEntered => ~ScopeExited(ScopeOf(callStack'[Len(callStack')]))
    /\ (CallRefused /\ ScopeExited(ScopeOf(last'.fn))) =>
           /\ last'.res = "CallbackError"
           /\ UNCHANGED <<cell, tableA, callbacks, funcs>>
C1_ExitedCallFails == []C1_NoExitedRunning /\ [][C1_Step]_vars

\* C1 witness: outside every scope the host called, through a global, a
\* function of an exited scope and got CallbackError.
C1_Witness ==
    /\ pc = "idle"
    /\ last.op = "call"
    /\ last.res = "CallbackError"
    /\ last.fn \in globals
    /\ ScopeExited(ScopeOf(last.fn))
    /\ callStack = <<>>

\* C2: scope drop is two-phase.  While the extracted objects are being
\* destroyed (also after one destruction panicked, and in the abort a second
\* panic causes) the destructor list of the scope is consumed and every
\* function registered through it is neutralized and has given up its
\* Callback; and no object of a scope is destroyed while a function of that
\* scope is still live in the VM.
DestroyingValues ==
    \/ pc = "drop_values"
    \/ pc = "aborted" /\ dtor = NoDtor
C2_TwoPhase ==
    /\ DestroyingValues =>
         /\ scopes[Depth].destructors = <<>>
         /\ \A f \in RegisteredIn(scopes[Depth].id) :
               /\ funcs[f].upvalue = "nil"
               /\ callbacks[f].loc \in {"to_drop", "dropped"}
    /\ \A f, g \in FuncIds :
         (ScopeOf(f) # 0 /\ ScopeOf(f) = ScopeOf(g)
                         /\ callbacks[f].loc = "dropped") =>
             funcs[g].upvalue = "nil"

\* C2 witness: the destruction of the first of two extracted objects has
\* panicked, the second is still held, and both functions are neutralized.
C2_Witness ==
    /\ pc = "drop_values"
    /\ panicking = "drop"
    /\ to_drop # <<>>
    /\ Cardinality(RegisteredIn(scopes[Depth].id)) >= 2
    /\ \A f \in RegisteredIn(scopes[Depth].id) : funcs[f].upvalue = "nil"

\* C3: destructors are kept in registration order and run in that order:
\* of two functions registered through the same scope, the one registered
\* first is called for destruction first and neutralized first.
InOrder(q) ==
    \A i, j \in DOMAIN q :
        (i < j /\ ScopeOf(q[i]) = ScopeOf(q[j])) => q[i] < q[j]
C3_RegistrationOrder ==
    /\ \A d \in DOMAIN scopes : InOrder(scopes[d].destructors)
    /\ InOrder(ran)
    /\ InOrder(invalidated)
    /\ \A a, b \in FuncIds :
         (a < b /\ ScopeOf(a) = ScopeOf(b) /\ funcs[b].upvalue = "nil") =>
             funcs[a].upvalue = "nil"

\* C3 witness: two functions of one scope have been neutralized.
C3_Witness ==
    \E i, j \in DOMAIN invalidated :
        /\ i < j
        /\ ScopeOf(invalidated[i]) = ScopeOf(invalidated[j])

\* C4: the destructor of a function is not called while the scope it was
\* registered through is open, is called exactly once by the time that scope
\* has exited, and never more than once; a scope that has exited was left
\* with an empty destructor list.
C4_RunOnce ==
    /\ \A f \in FuncIds :
         /\ Count(ran, f) <= 1
         /\ ScopeOpen(ScopeOf(f)) => Count(ran, f) = 0
         /\ ScopeExited(ScopeOf(f)) => Count(ran, f) = 1
    /\ \A id \in DOMAIN scopeLog : ScopeExited(id) => scopeLog[id].left = 0

\* C4 witness: a scope with two registrations has exited.
C4_Witness ==
    \E id \in DOMAIN scopeLog :
        /\ ScopeExited(id)
        /\ Cardinality(RegisteredIn(id)) >= 2

\* C5: the state a closure registered through a scope captured has one owner
\* per closure
\* while the scope is open, inside the VM userdata; it is released by the
\* time the scope has exited, whether or not the VM still refers to the
\* function, so that outside every scope the owner count is the baseline.
C5_CapturedReleased ==
    /\ \A f \in FuncIds :
         /\ ScopeOpen(ScopeOf(f)) => callbacks[f].loc = "userdata"
         /\ ScopeExited(ScopeOf(f)) => callbacks[f].loc = "dropped"
    /\ rcCount = 1 + Cardinality({f \in FuncIds :
                         ScopeOf(f) # 0 /\ callbacks[f].loc # "dropped"})
    /\ pc \in {"idle", "panicked"} => rcCount = 1

\* C5 witness: outside every scope, with a global still naming a function
\* whose closure was released, and the Cell set by a call inside the scope.
C5_Witness ==
    /\ pc = "idle"
    /\ rcCount = 1
    /\ cell = 42
    /\ \E f \in globals : callbacks[f].loc = "dropped"

KindOf(f) == callbacks[f].kind

\* C6: while a closure registered with create_function_mut is executing, a
\* further call of its function returns RecursiveMutCallback at once: the
\* closure is never executing twice, and the refused call changes neither
\* the invocations in progress (the outer one keeps its borrow and goes on)
\* nor anything the closures act on.  Nothing else is refused that way.
C6_NoReentry ==
    \A i, j \in DOMAIN callStack :
        (i < j /\ callStack[i] = callStack[j]) => KindOf(callStack[i]) = "Fn"
C6_Step ==
    /\ (CallRefused /\ last'.fn \in Range(callStack)
                    /\ KindOf(last'.fn) = "FnMut") =>
           last'.res = "RecursiveMutCallback"
    /\ (CallRefused /\ last'.res = "RecursiveMutCallback") =>
           /\ last'.fn \in Range(callStack)
           /\ KindOf(last'.fn) = "FnMut"
           /\ UNCHANGED <<callbacks, funcs, cell, tableA, rcCount>>
C6_RecursiveMutCallback == []C6_NoReentry /\ [][C6_Step]_vars

\* C6 witness: inside a running FnMut closure a call of the same function
\* has just been refused with RecursiveMutCallback.
C6_Witness ==
    /\ callStack # <<>>
    /\ last = Called(Running, "RecursiveMutCallback")
    /\ KindOf(Running) = "FnMut"
    /\ callbacks[Running].borrowed

\* C7: whenever a destructor is left, by returning or by the abort of
\* assert_stack, the stack top is what it was when the destructor was
\* called; so it is the same outside the destructors as before the drop.
C7_Step ==
    (pc = "destructor" /\ pc' # "destructor") => Len(stack') = dtor.base
C7_StackBalanced ==
    [](pc # "destructor" => stack = <<>>) /\ [][C7_Step]_vars

\* C7 witness: a destructor has pushed and popped, has returned its
\* Callback, and the stack is back at its top.
C7_Witness ==
    /\ pc = "drain"
    /\ to_drop # <<>>
    /\ invalidated # <<>>
    /\ stack = <<>>

\* C8: when a panic that started in a scope body leaves scope(), the scope
\* has been dropped: every scope the panic has left is Closed, and every
\* function registered through such a scope has had its destructor called
\* and is neutralized.
C8_PanicStillDrops ==
    (panicking = "body" /\ pc \in {"panicked", "unwinding"}) =>
        /\ \A id \in DOMAIN scopeLog :
              (\A d \in DOMAIN scopes : scopes[d].id # id) => ScopeExited(id)
        /\ \A f \in FuncIds :
              ScopeExited(ScopeOf(f)) =>
                  /\ funcs[f].upvalue = "nil"
                  /\ Count(ran, f) = 1

\* C8 witness: the panic of a body has left scope(), and a global still
\* names a function registered through the scope.
C8_Witness ==
    /\ pc = "panicked"
    /\ panicking = "body"
    /\ \E f \in globals : funcs[f].upvalue = "nil"

\* C9: the host's call of a function whose scope is open, made while no
\* closure is executing, is never refused: the closure is entered; and what
\* a closure has set (the captured Cell to 42, key "a" of the outer table to
\* "b") stays set, through the exit of the scope and after it.
C9_Step ==
    /\ ~(CallRefused /\ callStack = <<>> /\ ScopeOpen(ScopeOf(last'.fn)))
    /\ cell = 42 => cell' = 42
    /\ tableA = "b" => tableA' = "b"
C9_EffectsVisible == [][C9_Step]_vars

\* C9 witness: outside every scope, a function registered with
\* create_function_mut was called inside its scope and the values its
\* closure set are there.
C9_Witness ==
    /\ pc = "idle"
    /\ cell = 42
    /\ tableA = "b"
    /\ \E f \in FuncIds : KindOf(f) = "FnMut" /\ ScopeExited(ScopeOf(f))

\* C10: the drop of a Scope through which nothing was registered changes
\* neither the operand stack, nor the registry, nor a function or its
\* userdata, nor the globals; and Drop runs at most once on a Scope, exactly
\* once by the time it is no longer open.
C10_Step ==
    (Closing /\ RegisteredIn(scopes[Depth].id) = {}) =>
        UNCHANGED <<stack, registry, funcs, callbacks, globals, rcCount>>
C10_DroppedOnce ==
    \A id \in DOMAIN scopeLog :
        scopeLog[id].drops = IF ScopeOpen(id) THEN 0 ELSE 1
C10_EmptyDropNoOp == []C10_DroppedOnce /\ [][C10_Step]_vars

\* C10 witness: a Scope with no registration is past its destructor phase
\* while a function registered through an enclosing scope is live.
C10_Witness ==
    /\ pc = "drop_values"
    /\ RegisteredIn(scopes[Depth].id) = {}
    /\ to_drop = <<>>
    /\ \E f \in FuncIds : funcs[f].upvalue = "ud"

\* Scopes that are on the stack of Scope objects now.
Alive == {scopes[d].id : d \in DOMAIN scopes}
DestructorsOf(sc, id) ==
    LET d == CHOOSE d \in DOMAIN sc : sc[d].id = id IN sc[d].destructors

\* C11: a Scope goes from Open to Closing to Closed and never back.  A
\* function is registered, and a destructor list grows, only for a Scope
\* that is Open before and after the step; a Scope that is Closing is the
\* innermost one, inside its drop (or the process was aborted there); and a
\* Closed Scope has had every one of its destructors called and every
\* object they extracted destroyed.
C11_Forward(a, b) ==
    \/ a = b
    \/ a = "Open" /\ b = "Closing"
    \/ a = "Closing" /\ b = "Closed"
C11_Step ==
    /\ \A id \in DOMAIN scopeLog :
          C11_Forward(scopeLog[id].st, scopeLog'[id].st)
    /\ \A id \in DOMAIN scopeLog' \ DOMAIN scopeLog :
          scopeLog'[id].st = "Open"
    /\ \A id \in Alive :
          (\E d \in DOMAIN scopes' :
               /\ scopes'[d].id = id
               /\ Len(scopes'[d].destructors) > Len(DestructorsOf(scopes, id)))
          => (scopeLog[id].st = "Open" /\ scopeLog'[id].st = "Open")
    /\ \A f \in DOMAIN funcs' \ DOMAIN funcs :
          funcs'[f].scope # 0 =>
              /\ scopeLog[funcs'[f].scope].st = "Open"
              /\ scopeLog'[funcs'[f].scope].st = "Open"
C11_States ==
    \A id \in DOMAIN scopeLog :
        /\ scopeLog[id].st \in {"Open", "Closing"} <=> id \in Alive
        /\ scopeLog[id].st = "Closing" =>
              ((Closing \/ pc = "aborted") /\ scopes[Depth].id = id)
        /\ scopeLog[id].st = "Closed" =>
              /\ scopeLog[id].left = 0
              /\ \A f \in RegisteredIn(id) :
                    /\ Count(ran, f) = 1
                    /\ callbacks[f].loc = "dropped"
C11_OpenClosingClosed == []C11_States /\ [][C11_Step]_vars

\* C11 witness: a Scope with a registration is Closed while a Scope around
\* it is Open and holds a registration of its own.
C11_Witness ==
    /\ pc = "body"
    /\ \E id \in DOMAIN scopeLog :
          /\ scopeLog[id].st = "Closed"
          /\ RegisteredIn(id) # {}
    /\ \E id \in Alive : RegisteredIn(id) # {}

\* A step in which a registration returned its Result to the body.
Registered == last' # last /\ last'.op = "create"

\* C12: the destructor list of an Open Scope holds one destructor for each
\* function registered through it and nothing else.  A registration that
\* returns the error of Lua::create_callback leaves every destructor list,
\* the functions and the closures' captures as they were; one that returns
\* Ok has created one function and appended its destructor, once, to the
\* list of the Scope it was called on; and no list grows otherwise.
C12_OnePerFunction ==
    \A d \in DOMAIN scopes :
        scopeLog[scopes[d].id].st = "Open" =>
            /\ Range(scopes[d].destructors) = RegisteredIn(scopes[d].id)
            /\ Len(scopes[d].destructors) =
                   Cardinality(RegisteredIn(scopes[d].id))
C12_Step ==
    /\ (Registered /\ last'.res = "Err") =>
           UNCHANGED <<scopes, funcs, callbacks, registry, handles, rcCount>>
    /\ (Registered /\ last'.res = "Ok") =>
           /\ Len(funcs') = Len(funcs) + 1
           /\ last'.fn = Len(funcs')
           /\ \E d \in DOMAIN scopes :
                 /\ scopes[d].id = funcs'[last'.fn].scope
                 /\ scopes' = [scopes EXCEPT ![d].destructors =
                                   Append(@, last'.fn)]
    /\ (\E d \in DOMAIN scopes : d \in DOMAIN scopes' /\
            Len(scopes'[d].destructors) > Len(scopes[d].destructors)) =>
           (Registered /\ last'.res = "Ok")
C12_DestructorPerRegistration == []C12_OnePerFunction /\ [][C12_Step]_vars

\* C12 witness: a registration has just failed in a body whose Scope holds
\* the destructor of an earlier, successful registration.
C12_Witness ==
    /\ pc = "body"
    /\ last = [op |-> "create", fn |-> 0, res |-> "Err"]
    /\ scopes[Depth].destructors # <<>>
    /\ Len(scopes[Depth].destructors) = Len(funcs)

\* Slots the destructor asks for: assert_stack(state, 2).
Asserted == 2

\* C13: at every statement of a destructor the operand stack is at least at
\* the top recorded when the destructor was called and at most the two
\* asserted slots above it; before assert_stack has passed it is at that
\* top.
C13_WithinAsserted ==
    pc = "destructor" =>
        /\ Len(stack) >= dtor.base
        /\ Len(stack) <= dtor.base + Asserted
        /\ dtor.ip <= 3 => Len(stack) = dtor.base

\* C13 witness: a destructor holds the function and its userdata on the
\* stack, both asserted slots in use.
C13_Witness ==
    /\ pc = "destructor"
    /\ Len(stack) = dtor.base + Asserted
    /\ stack[Len(stack)] = LuaUserdata(dtor.f)
    /\ stack[Len(stack) - 1] = LuaFunction(dtor.f)

\* C14: a function registered with create_function has no exclusivity
\* guard.  No borrow is ever recorded for it; a call of it is refused only
\* when it has been invalidated, with CallbackError and never with
\* RecursiveMutCallback; and while its closure is executing a further call
\* of it is not refused: the closure is entered again.
C14_NoGuard ==
    \A f \in FuncIds : KindOf(f) = "Fn" => ~callbacks[f].borrowed
C14_Step ==
    (CallRefused /\ KindOf(last'.fn) = "Fn") =>
           /\ last'.res = "CallbackError"
           /\ funcs[last'.fn].upvalue = "nil"
           /\ last'.fn \notin Range(callStack)
C14_FnReentrant == []C14_NoGuard /\ [][C14_Step]_vars

\* C14 witness: the closure of a create_function function is executing
\* inside itself.
C14_Witness ==
    /\ Len(callStack) >= 2
    /\ callStack[Len(callStack)] = callStack[Len(callStack) - 1]
    /\ KindOf(Running) = "Fn"
    /\ funcs[Running].upvalue = "ud"

\* The alias f_destruct of function f exists: its destructor is in a list or
\* is being called.
DestructorHolds(f) ==
    \/ \E d \in DOMAIN scopes : f \in Range(scopes[d].destructors)
    \/ dtor.f = f

\* C16: the aliases of the registry slot of a function are the Function
\* handle the body holds, if any, and the alias its destructor holds.  While
\* the destructor is being called the caller's handle is already dropped
\* and the slot is still occupied, by that alias alone, so that push_ref
\* pushed the function.  The count of aliases never grows after the
\* registration and never goes below zero; the slot is released in the step
\* in which the destructor is dropped after its call, and stays released.
C16_Aliases ==
    /\ \A f \in FuncIds :
          registry[f] = (IF handles[f] > 0 THEN 1 ELSE 0)
                        + (IF DestructorHolds(f) THEN 1 ELSE 0)
    /\ pc = "destructor" =>
          /\ handles[dtor.f] = 0
          /\ registry[dtor.f] = 1
          /\ (dtor.ip > 3 /\ Len(stack) > dtor.base) =>
                stack[dtor.base + 1] = LuaFunction(dtor.f)
C16_Step ==
    \A f \in FuncIds :
        /\ registry'[f] <= registry[f]
        /\ registry'[f] >= 0
        /\ (registry[f] > 0 /\ registry'[f] = 0) =>
              (pc = "destructor" /\ dtor.f = f /\ pc' = "drain")
C16_OwnAlias == []C16_Aliases /\ [][C16_Step]_vars

\* C16 witness: a destructor has pushed its function through its own alias,
\* the only one left, while a global still names the function.
C16_Witness ==
    /\ pc = "destructor"
    /\ dtor.ip > 3
    /\ handles[dtor.f] = 0
    /\ registry[dtor.f] = 1
    /\ stack # <<>>
    /\ stack[1] = LuaFunction(dtor.f)
    /\ dtor.f \in globals

\* C17: the Callback of a function registered through a scope (and of any
\* other function) is destroyed at most once.
\* It is owned by its userdata until its destructor moves it out, which
\* leaves the userdata destructed; it is destroyed in phase 2 of the drop of
\* its Scope, and only there, so that it is destroyed exactly once by the
\* time the Scope has exited; and when the VM is closed and collects the
\* functions and their userdata, no Callback is destroyed.
C17_OnceEach ==
    \A f \in FuncIds :
        /\ callbacks[f].drops <= 1
        /\ callbacks[f].drops = 1 <=> callbacks[f].loc = "dropped"
        /\ funcs[f].userdata = "owns" <=> callbacks[f].loc = "userdata"
        /\ ScopeExited(ScopeOf(f)) => callbacks[f].drops = 1
C17_Step ==
    \A f \in FuncIds :
        (ScopeOf(f) # 0 /\ callbacks'[f].drops # callbacks[f].drops) =>
            /\ pc = "drop_values"
            /\ callbacks[f].loc = "to_drop"
            /\ to_drop # <<>> /\ Head(to_drop) = f
            /\ ScopeOf(f) = scopes[Depth].id
C17_DestroyedOnce == []C17_OnceEach /\ [][C17_Step]_vars

\* C17 witness: the VM has been closed after a scope with two functions
\* exited; their userdata were collected and each Callback was destroyed
\* once.
C17_Witness ==
    /\ pc = "closed"
    /\ Len(funcs) >= 2
    /\ \A f \in FuncIds :
          /\ ScopeExited(ScopeOf(f))
          /\ callbacks[f].drops = 1
          /\ funcs[f].userdata = "collected"
          /\ funcs[f].upvalue = "nil"

\* A step in which the innermost running closure was left.
CallLeft == Len(callStack') < Len(callStack)

\* C18: the RefCell of a create_function_mut closure is borrowed exactly
\* while the closure is executing.  Whatever way an invocation is left (Ok,
\* an error, a panic caught at the trampoline), the borrow is gone with it;
\* and a call of such a function made while its closure is not executing is
\* refused only if the function has been invalidated, never with
\* RecursiveMutCallback.
C18_HeldWhileRunning ==
    \A f \in FuncIds :
        callbacks[f].borrowed <=>
            (KindOf(f) = "FnMut" /\ f \in Range(callStack))
C18_Step ==
    /\ CallLeft => ~callbacks'[Running].borrowed
    /\ (CallRefused /\ KindOf(last'.fn) = "FnMut"
                    /\ last'.fn \notin Range(callStack)) =>
           /\ last'.res = "CallbackError"
           /\ funcs[last'.fn].upvalue = "nil"
C18_GuardReleased == []C18_HeldWhileRunning /\ [][C18_Step]_vars

\* C18 witness: the closure of a create_function_mut function has just
\* panicked inside its scope (the host got CallbackError from a function
\* that is not invalidated) and its RefCell is not borrowed.
C18_Witness ==
    /\ pc = "body"
    /\ callStack = <<>>
    /\ last.op = "call"
    /\ last.res = "CallbackError"
    /\ KindOf(last.fn) = "FnMut"
    /\ funcs[last.fn].upvalue = "ud"
    /\ ~callbacks[last.fn].borrowed
    /\ cell = 42

\* C19: no destructor list holds a function twice, no function is in two
\* lists, and every destructor is in the list of the Scope its function was
\* registered through; no function is neutralized twice; and from the call
\* of a destructor until its take_userdata, upvalue 1 of its function is
\* the userdata that owns the Callback, which take_userdata then gets.
C19_Distinct ==
    /\ \A d \in DOMAIN scopes : \A f \in Range(scopes[d].destructors) :
          /\ f \in FuncIds
          /\ Count(scopes[d].destructors, f) = 1
          /\ ScopeOf(f) = scopes[d].id
          /\ Count(ran, f) = 0
    /\ \A f \in FuncIds : Count(invalidated, f) <= 1
C19_LiveWhenRun ==
    pc = "destructor" =>
        /\ dtor.ip <= 5 =>
              /\ funcs[dtor.f].upvalue = "ud"
              /\ funcs[dtor.f].userdata = "owns"
              /\ callbacks[dtor.f].loc = "userdata"
        /\ dtor.ip = 5 => stack[Len(stack)] = LuaUserdata(dtor.f)
        /\ dtor.ip > 5 => dtor.ud = dtor.f
C19_NoDoubleInvalidation == C19_Distinct /\ C19_LiveWhenRun

\* C19 witness: the second destructor of a scope is about to take the
\* userdata of its own function; the first function is neutralized.
C19_Witness ==
    /\ pc = "destructor"
    /\ dtor.ip = 5
    /\ stack[Len(stack)] = LuaUserdata(dtor.f)
    /\ \E g \in FuncIds :
          /\ g # dtor.f
          /\ ScopeOf(g) = ScopeOf(dtor.f)
          /\ funcs[g].upvalue = "nil"

\* C15: a step of a destructor changes, of all functions, only its own: the
\* upvalue, the userdata and the Callback of every other function (of the
\* same scope, of another scope, or bound to no scope), every registry slot
\* but its own, the globals, the outer table and the captured Cell are left
\* as they are; and the whole drop of a Scope leaves alone the functions
\* that were not registered through it.  When the destructor has returned,
\* upvalue 1 of its function is nil and its userdata has been taken.  A
\* function bound to no scope keeps its upvalue and its Callback through
\* every scope exit, and a call of it is never refused.
C15_Step ==
    /\ pc = "destructor" =>
          /\ \A g \in FuncIds \ {dtor.f} :
                /\ funcs'[g] = funcs[g]
                /\ callbacks'[g] = callbacks[g]
                /\ registry'[g] = registry[g]
          /\ funcs'[dtor.f].scope = funcs[dtor.f].scope
          /\ UNCHANGED <<globals, tableA, cell, handles, rcCount>>
    /\ Closing =>
          /\ \A g \in FuncIds \ RegisteredIn(scopes[Depth].id) :
                /\ funcs'[g] = funcs[g]
                /\ callbacks'[g] = callbacks[g]
                /\ registry'[g] = registry[g]
          /\ UNCHANGED <<globals, tableA, cell>>
    /\ ~(CallRefused /\ ScopeOf(last'.fn) = 0)
C15_OwnDone ==
    \A f \in Range(ran) :
        (dtor.f # f) =>
            /\ funcs[f].upvalue = "nil"
            /\ funcs[f].userdata # "owns"
C15_OthersKept ==
    \A f \in FuncIds :
        (ScopeOf(f) = 0 \/ ScopeOpen(ScopeOf(f))) =>
            /\ funcs[f].upvalue = "ud"
            /\ pc # "closed" => /\ funcs[f].userdata = "owns"
                                /\ callbacks[f].loc = "userdata"
C15_Kept == C15_OwnDone /\ C15_OthersKept
C15_OnlyOwnFunction == []C15_Kept /\ [][C15_Step]_vars

\* C15 witness: after a scope with a function of its own has exited, the
\* host called a function bound to no scope, registered before the scope,
\* and its closure ran and returned Ok; the outer table holds what a
\* closure stored in it.
C15_Witness ==
    /\ pc = "idle"
    /\ last.op = "call"
    /\ last.res = "Ok"
    /\ ScopeOf(last.fn) = 0
    /\ tableA = "b"
    /\ \E g \in FuncIds :
          /\ ScopeExited(ScopeOf(g))
          /\ funcs[g].upvalue = "nil"
====
